---------------------------- MODULE Spec2Model ----------------------------
(***************************************************************************)
(* Temporal normalisation (nbs/common.scalers.ipynb): the masked           *)
(* reductions, the six scalers with their inverses, and the TemporalNorm   *)
(* module that caches the statistics of its last transform.                *)
(*                                                                         *)
(* Numbers.  The tensors hold floating-point numbers; the model computes   *)
(* with exact rationals, so that 1e12, 1e-6 and 0.6744897501960817 keep    *)
(* their values.  TLC's integers are 32 bits wide, hence a rational is a   *)
(* sign and two naturals written as sequences of base-10000 limbs, least   *)
(* significant first.  Rounding of +, -, *, / is not modelled.  The two    *)
(* operations without a rational result are modelled as follows: the       *)
(* square root is rounded down to three decimals (exact where the root has *)
(* at most three), and arcsinh(q) is carried as q tagged "asinh", which    *)
(* sinh untags.  0/0 is the NaN of masked_fill / nanmean.                  *)
(***************************************************************************)
EXTENDS Integers, Sequences, FiniteSets

VARIABLES
    phase,   \* "new" before TemporalNorm(...), then "ready", or "failed"
    self,    \* the TemporalNorm instance
    call,    \* the most recent call on it, with its arguments
    ret,     \* the outcome of that call: the exception raised, or the value
    xs,      \* the <<x, mask>> of every transform so far, oldest first
    zs,      \* the z every transform returned, oldest first
    overridden, \* an inverse_transform was given a statistic since the last transform
    fcall,   \* a direct call of a scaler, an inverse or a masked reduction
    fret,    \* whether that call is done, and what it returned
    norm,    \* two callers: the TemporalNorm instances they use, by name
    last,    \* for each of those, the caller whose transform ran last on it
    caller   \* for each caller, its instance, its position and its tensors

vars == <<phase, self, call, ret, xs, zs, overridden, fcall, fret, norm, last,
          caller>>

(***************************************************************************)
(* Naturals of any size: limb sequences, no leading (last) zero limb.      *)
(***************************************************************************)
Base == 100 * 100

RECURSIVE NatTrim(_)
NatTrim(a) ==
    IF a = <<>> THEN a
    ELSE IF a[Len(a)] = 0 THEN NatTrim(SubSeq(a, 1, Len(a) - 1)) ELSE a

NatOfInt(k) ==
    IF k = 0 THEN <<>>
    ELSE IF k < Base THEN <<k>>
    ELSE IF k < Base * Base THEN <<k % Base, k \div Base>>
    ELSE <<k % Base, (k \div Base) % Base, k \div (Base * Base)>>

RECURSIVE NatCmpFrom(_, _, _)
NatCmpFrom(a, b, i) ==
    IF i = 0 THEN 0
    ELSE IF a[i] < b[i] THEN -1
    ELSE IF a[i] > b[i] THEN 1
    ELSE NatCmpFrom(a, b, i - 1)

\* -1, 0, 1 as a < b, a = b, a > b
NatCmp(a, b) ==
    IF Len(a) < Len(b) THEN -1
    ELSE IF Len(a) > Len(b) THEN 1
    ELSE NatCmpFrom(a, b, Len(a))

RECURSIVE NatAddC(_, _, _, _)
NatAddC(a, b, i, carry) ==
    IF i > Len(a) /\ i > Len(b)
    THEN IF carry = 0 THEN <<>> ELSE <<carry>>
    ELSE LET s == (IF i <= Len(a) THEN a[i] ELSE 0)
                  + (IF i <= Len(b) THEN b[i] ELSE 0) + carry
         IN  <<s % Base>> \o NatAddC(a, b, i + 1, s \div Base)

NatAdd(a, b) == NatAddC(a, b, 1, 0)

RECURSIVE NatSubB(_, _, _, _)
NatSubB(a, b, i, borrow) ==
    IF i > Len(a) THEN <<>>
    ELSE LET s == a[i] - (IF i <= Len(b) THEN b[i] ELSE 0) - borrow
         IN  IF s < 0
             THEN <<s + Base>> \o NatSubB(a, b, i + 1, 1)
             ELSE <<s>> \o NatSubB(a, b, i + 1, 0)

\* a - b for a >= b
NatSub(a, b) == NatTrim(NatSubB(a, b, 1, 0))

RECURSIVE NatMulSmallC(_, _, _, _)
NatMulSmallC(a, k, i, carry) ==
    IF i > Len(a)
    THEN IF carry = 0 THEN <<>> ELSE <<carry>>
    ELSE LET p == a[i] * k + carry
         IN  <<p % Base>> \o NatMulSmallC(a, k, i + 1, p \div Base)

\* a * k for one limb k
NatMulSmall(a, k) == IF k = 0 \/ a = <<>> THEN <<>> ELSE NatMulSmallC(a, k, 1, 0)

RECURSIVE NatMulFrom(_, _, _)
NatMulFrom(a, b, j) ==
    IF j > Len(b) THEN <<>>
    ELSE LET rest == NatMulFrom(a, b, j + 1)
         IN  NatAdd(NatMulSmall(a, b[j]),
                    IF rest = <<>> THEN <<>> ELSE <<0>> \o rest)

NatMul(a, b) ==
    IF a = <<>> \/ b = <<>> THEN <<>>
    ELSE IF Len(a) >= Len(b) THEN NatMulFrom(a, b, 1) ELSE NatMulFrom(b, a, 1)

RECURSIVE GCD(_, _)
GCD(a, b) == IF b = 0 THEN a ELSE GCD(b, a % b)

(***************************************************************************)
(* Numbers: [neg, n, d, f] is f((-1)^neg * n / d), f the identity or       *)
(* arcsinh.  d = <<>> is a non-finite value (NaN); zero has neg = FALSE.   *)
(***************************************************************************)
NaN == [neg |-> FALSE, n |-> <<>>, d |-> <<>>, f |-> "id"]

IsNaN(q) == q.d = <<>>

RECURSIVE DropZeroLimbs(_, _)
DropZeroLimbs(n, d) ==
    IF n # <<>> /\ d # <<>> /\ n[1] = 0 /\ d[1] = 0
    THEN DropZeroLimbs(Tail(n), Tail(d))
    ELSE <<n, d>>

\* The number (-1)^neg * n / d, in lowest terms where n and d are single limbs.
Rat(neg, n, d) ==
    IF d = <<>> THEN NaN
    ELSE IF n = <<>> THEN [neg |-> FALSE, n |-> <<>>, d |-> <<1>>, f |-> "id"]
    ELSE LET nd == DropZeroLimbs(n, d)
             g  == IF Len(nd[1]) = 1 /\ Len(nd[2]) = 1
                   THEN GCD(nd[1][1], nd[2][1]) ELSE 1
         IN  IF g = 1
             THEN [neg |-> neg, n |-> nd[1], d |-> nd[2], f |-> "id"]
             ELSE [neg |-> neg, n |-> <<nd[1][1] \div g>>,
                   d |-> <<nd[2][1] \div g>>, f |-> "id"]

Zero == Rat(FALSE, <<>>, <<1>>)
One == Rat(FALSE, <<1>>, <<1>>)

\* The integer k, |k| < 10^12
RatOfInt(k) == IF k < 0 THEN Rat(TRUE, NatOfInt(-k), <<1>>)
               ELSE Rat(FALSE, NatOfInt(k), <<1>>)

IsZero(q) == ~IsNaN(q) /\ q.n = <<>>

Neg(q) == IF IsNaN(q) \/ q.n = <<>> THEN q ELSE [q EXCEPT !.neg = ~q.neg]

Abs(q) == [q EXCEPT !.neg = FALSE]

Add(a, b) ==
    CASE a.f = "id" /\ b.f = "id" ->
        IF IsNaN(a) \/ IsNaN(b) THEN NaN
        ELSE LET same == a.d = b.d
                 an == IF same THEN a.n ELSE NatMul(a.n, b.d)
                 bn == IF same THEN b.n ELSE NatMul(b.n, a.d)
                 dd == IF same THEN a.d ELSE NatMul(a.d, b.d)
             IN  IF a.neg = b.neg THEN Rat(a.neg, NatAdd(an, bn), dd)
                 ELSE IF NatCmp(an, bn) >= 0 THEN Rat(a.neg, NatSub(an, bn), dd)
                 ELSE Rat(b.neg, NatSub(bn, an), dd)

Sub(a, b) == Add(a, Neg(b))

Mul(a, b) ==
    CASE a.f = "id" /\ b.f = "id" ->
        IF IsNaN(a) \/ IsNaN(b) THEN NaN
        ELSE IF a.d = b.n THEN Rat(a.neg # b.neg, a.n, b.d)
        ELSE IF b.d = a.n THEN Rat(a.neg # b.neg, b.n, a.d)
        ELSE Rat(a.neg # b.neg, NatMul(a.n, b.n), NatMul(a.d, b.d))

\* a / b; a division by zero has no finite value
Div(a, b) ==
    CASE a.f = "id" /\ b.f = "id" ->
        IF IsNaN(a) \/ IsNaN(b) \/ b.n = <<>> THEN NaN
        ELSE Mul(a, [b EXCEPT !.n = b.d, !.d = b.n])

\* -1, 0, 1 as a < b, a = b, a > b (both finite)
Cmp(a, b) ==
    CASE a.f = "id" /\ b.f = "id" /\ ~IsNaN(a) /\ ~IsNaN(b) ->
        LET sa == IF a.n = <<>> THEN 0 ELSE IF a.neg THEN -1 ELSE 1
            sb == IF b.n = <<>> THEN 0 ELSE IF b.neg THEN -1 ELSE 1
        IN  IF sa # sb THEN (IF sa < sb THEN -1 ELSE 1)
            ELSE IF sa = 0 THEN 0
            ELSE sa * (IF a.d = b.d THEN NatCmp(a.n, b.n)
                       ELSE NatCmp(NatMul(a.n, b.d), NatMul(b.n, a.d)))

Lt(a, b) == Cmp(a, b) < 0
Le(a, b) == Cmp(a, b) <= 0

\* equality of values; NaN equals nothing, as in x == y
Eq(a, b) ==
    IF a.f # b.f THEN (IsZero(a) /\ IsZero(b))
    ELSE IF IsNaN(a) \/ IsNaN(b) THEN FALSE
    ELSE [a EXCEPT !.f = "id"] = [b EXCEPT !.f = "id"]
         \/ Cmp([a EXCEPT !.f = "id"], [b EXCEPT !.f = "id"]) = 0

\* r with limb v at position pos (the limbs above pos set, those below zero)
SetLimb(r, pos, v) == <<>> \o [i \in 1..Len(r) |-> IF i = pos THEN v ELSE r[i]]

RECURSIVE SqrtLimb(_, _, _, _, _, _)
\* the largest v in lo..hi with SetLimb(r, pos, v)^2 * d <= m
SqrtLimb(r, pos, lo, hi, m, d) ==
    IF lo = hi THEN lo
    ELSE LET mid == (lo + hi + 1) \div 2
             c   == NatTrim(SetLimb(r, pos, mid))
         IN  IF NatCmp(NatMul(NatMul(c, c), d), m) <= 0
             THEN SqrtLimb(r, pos, mid, hi, m, d)
             ELSE SqrtLimb(r, pos, lo, mid - 1, m, d)

RECURSIVE SqrtFrom(_, _, _, _)
SqrtFrom(r, pos, m, d) ==
    IF pos = 0 THEN NatTrim(r)
    ELSE SqrtFrom(SetLimb(r, pos, SqrtLimb(r, pos, 0, Base - 1, m, d)),
                  pos - 1, m, d)

RECURSIVE ISqrt(_, _, _)
\* the largest r in lo..hi with r * r <= m, for m < 2^31
ISqrt(m, lo, hi) ==
    IF lo = hi THEN lo
    ELSE LET mid == (lo + hi + 1) \div 2
         IN  IF mid * mid <= m THEN ISqrt(m, mid, hi) ELSE ISqrt(m, lo, mid - 1)

\* torch.sqrt: the root of q >= 0, rounded down to a multiple of 1/1000.
\* Small operands are handled in machine integers:
\* floor(sqrt(n * 10^6 / d)) = floor(sqrt(floor(n * 10^6 / d))).
Sqrt(q) ==
    CASE q.f = "id" ->
        IF IsNaN(q) \/ q.neg THEN NaN
        ELSE IF q.n = <<>> THEN Zero
        ELSE IF Len(q.n) = 1 /\ Len(q.d) = 1 /\ q.n[1] <= 2000
        THEN Rat(FALSE, NatOfInt(ISqrt((q.n[1] * 1000000) \div q.d[1], 0, 46340)),
                 <<1000>>)
        ELSE LET m == NatMul(q.n, <<0, 100>>)
                 L == (IF Len(m) > Len(q.d) THEN (Len(m) - Len(q.d)) \div 2 ELSE 0) + 2
             IN  Rat(FALSE, SqrtFrom(<<>> \o [i \in 1..L |-> 0], L, m, q.d), <<1000>>)

\* torch.arcsinh, kept symbolic: arcsinh(0) = 0, arcsinh(q) = q tagged
Arcsinh(q) ==
    CASE q.f = "id" ->
        IF IsNaN(q) \/ q.n = <<>> THEN q ELSE [q EXCEPT !.f = "asinh"]

\* torch.sinh: sinh(arcsinh(q)) = q, sinh(0) = 0; sinh of another rational
\* is irrational and carried as q tagged "sinh"
Sinh(z) ==
    CASE z.f = "asinh" -> [z EXCEPT !.f = "id"]
      [] z.f = "id" -> IF IsNaN(z) \/ z.n = <<>> THEN z ELSE [z EXCEPT !.f = "sinh"]

(***************************************************************************)
(* Tensors are two-dimensional: a sequence of rows.  A reduction along     *)
(* dim with keepdim=True leaves that dimension with size 1, and the        *)
(* elementwise operations broadcast a dimension of size 1.                 *)
(***************************************************************************)
Shape(t) == <<Len(t), Len(t[1])>>

\* the axis (0 or 1) a Python dim names; -1 is the last one
Axis(dim) == IF dim < 0 THEN dim + 2 ELSE dim

At(t, i, j) == t[IF Len(t) = 1 THEN 1 ELSE i][IF Len(t[1]) = 1 THEN 1 ELSE j]

Max2(a, b) == IF a >= b THEN a ELSE b

\* the sequence f[1], ..., f[n], its elements computed once
Materialize(f) == <<>> \o f

\* a op b, elementwise with broadcasting
Elementwise(Op(_, _), a, b) ==
    Materialize([i \in 1..Max2(Len(a), Len(b)) |->
        Materialize([j \in 1..Max2(Len(a[1]), Len(b[1])) |->
            Op(At(a, i, j), At(b, i, j))])])

Map(Op(_), a) ==
    Materialize([i \in 1..Len(a) |->
        Materialize([j \in 1..Len(a[1]) |-> Op(a[i][j])])])

Full(shape, v) ==
    Materialize([i \in 1..shape[1] |-> Materialize([j \in 1..shape[2] |-> v])])

\* F over every slice along dim
Reduce(F(_), x, dim, keepdim) ==
    IF Axis(dim) = 1
    THEN IF keepdim THEN Materialize([i \in 1..Len(x) |-> <<F(x[i])>>])
         ELSE Materialize([i \in 1..Len(x) |-> F(x[i])])
    ELSE LET col(j) == Materialize([i \in 1..Len(x) |-> x[i][j]])
         IN  IF keepdim THEN <<Materialize([j \in 1..Len(x[1]) |-> F(col(j))])>>
             ELSE Materialize([j \in 1..Len(x[1]) |-> F(col(j))])

RECURSIVE SumSeq(_, _)
SumSeq(s, I) ==
    IF I = {} THEN Zero
    ELSE LET i == CHOOSE k \in I : TRUE IN Add(s[i], SumSeq(s, I \ {i}))

NotNaN(s) == {i \in 1..Len(s) : ~IsNaN(s[i])}

\* a mean that skips the NaN entries in the sum and counts them in the divisor
NanMeanOverLen(s) ==
    IF NotNaN(s) = {} THEN NaN
    ELSE Div(SumSeq(s, NotNaN(s)), RatOfInt(Len(s)))

\* Tensor.nanmean over one slice: the mean of the entries that are not NaN;
\* of none, 0/0
NanMean(s) ==
    LET I == NotNaN(s)
    IN  IF I = {} THEN NaN
        ELSE Div(SumSeq(s, I), RatOfInt(Cardinality(I)))

\* the entry of rank k in ascending order among the entries of s indexed by I
RankOf(s, I, k) ==
    s[CHOOSE i \in I :
         /\ Cardinality({j \in I : Lt(s[j], s[i])}) <= k
         /\ Cardinality({j \in I : Le(s[j], s[i])}) > k]

\* a median that averages the two middle entries of an even count
NanMedianAveraged(s) ==
    IF NotNaN(s) = {} THEN NaN
    ELSE Div(Add(RankOf(s, NotNaN(s), (Cardinality(NotNaN(s)) - 1) \div 2),
                 RankOf(s, NotNaN(s), Cardinality(NotNaN(s)) \div 2)),
             RatOfInt(2))

\* Tensor.nanmedian over one slice: of the n entries that are not NaN, the one
\* of rank (n-1) div 2 in ascending order (the lower middle one); of none, NaN
NanMedian(s) ==
    LET I == NotNaN(s)
        k == (Cardinality(I) - 1) \div 2
    IN  IF I = {} THEN NaN
        ELSE s[CHOOSE i \in I :
                  /\ Cardinality({j \in I : Lt(s[j], s[i])}) <= k
                  /\ Cardinality({j \in I : Le(s[j], s[i])}) > k]

\* torch.max / torch.min over one slice
MaxOf(s) == s[CHOOSE i \in 1..Len(s) : \A j \in 1..Len(s) : Le(s[j], s[i])]
MinOf(s) == s[CHOOSE i \in 1..Len(s) : \A j \in 1..Len(s) : Le(s[i], s[j])]

\* torch.nan_to_num(., nan=0.0)
NanToNum(q) == IF IsNaN(q) THEN Zero ELSE q

\* x.float().masked_fill(mask<1, float("nan"))
MaskedFillNaN(x, mask) ==
    Materialize([i \in 1..Len(x) |-> Materialize([j \in 1..Len(x[1]) |->
        IF At(mask, i, j) < 1 THEN NaN ELSE x[i][j]])])

\* torch.nan_to_num over a reduced tensor
NanToNumAll(t, keepdim) ==
    IF keepdim THEN Map(NanToNum, t)
    ELSE Materialize([i \in 1..Len(t) |-> NanToNum(t[i])])

masked_median(x, mask, dim, keepdim) ==
    NanToNumAll(Reduce(NanMedian, MaskedFillNaN(x, mask), dim, keepdim), keepdim)

masked_mean(x, mask, dim, keepdim) ==
    NanToNumAll(Reduce(NanMean, MaskedFillNaN(x, mask), dim, keepdim), keepdim)

(***************************************************************************)
(* The scalers.  Each returns <<z, shift, scale>>.                         *)
(***************************************************************************)
\* the natural with the given base-10000 digits, most significant first
RECURSIVE NatOfDigits(_)
NatOfDigits(ds) == IF ds = <<>> THEN <<>>
                   ELSE NatOfDigits(Tail(ds)) \o <<Head(ds)>>

\* 1e12, the offset that takes a masked entry out of a max or a min
Sentinel == Rat(FALSE, NatOfDigits(<<1, 0, 0, 0>>), <<1>>)

\* 0.6744897501960817
MadRatio == Rat(FALSE, NatOfDigits(<<6744, 8975, 196, 817>>),
                NatOfDigits(<<1, 0, 0, 0, 0>>))

\* 1e-6, the default of every eps parameter
DefaultEps == Rat(FALSE, <<1>>, NatOfDigits(<<100, 0>>))

Sq(q) == Mul(q, q)

\* x[x==0] = 1.0
ZeroToOne(q) == IF Eq(q, Zero) THEN One ELSE q

\* WhereMaskZero with the test on the mask inverted: (mask!=0) * v
WhereMaskNonZero(x, mask, v) ==
    Materialize([i \in 1..Len(x) |-> Materialize([j \in 1..Len(x[1]) |->
        IF At(mask, i, j) # 0 THEN v ELSE Zero])])

\* the tensor (mask==0) * v
WhereMaskZero(x, mask, v) ==
    Materialize([i \in 1..Len(x) |-> Materialize([j \in 1..Len(x[1]) |->
        IF At(mask, i, j) = 0 THEN v ELSE Zero])])

\* GuardScale without the replacement of a zero: scale + eps only
GuardScaleEpsOnly(scale, eps) == Map(LAMBDA r : Add(r, eps), scale)

\* scale[scale==0] = 1.0, then scale + eps
GuardScale(scale, eps) == Map(LAMBDA r : Add(ZeroToOne(r), eps), scale)

\* z = (x - shift) / scale, returned with the two statistics
Scaled(x, shift, scale) ==
    <<Elementwise(Div, Elementwise(Sub, x, shift), scale), shift, scale>>

\* torch.max(x + (mask==0) * (-1e12), dim, keepdim=True)[0]
MaskedMax(x, mask, dim) ==
    Reduce(MaxOf, Elementwise(Add, x, WhereMaskZero(x, mask, Neg(Sentinel))),
           dim, TRUE)

\* torch.min(x + (mask==0) * 1e12, dim, keepdim=True)[0]
MaskedMin(x, mask, dim) ==
    Reduce(MinOf, Elementwise(Add, x, WhereMaskZero(x, mask, Sentinel)),
           dim, TRUE)

\* the range x_max - x_min, guarded
MinMaxRange(x_max, x_min, eps) == GuardScale(Elementwise(Sub, x_max, x_min), eps)

MinMaxOf(x, x_max, x_min, eps) == Scaled(x, x_min, MinMaxRange(x_max, x_min, eps))

minmax_scaler(x, mask, eps, dim) ==
    MinMaxOf(x, MaskedMax(x, mask, dim), MaskedMin(x, mask, dim), eps)

inv_minmax_scaler(z, x_min, x_range) ==
    Elementwise(Add, Elementwise(Mul, z, x_range), x_min)

\* z = x * 2 - 1 on the z of r
ToSymmetric(r) ==
    <<Map(LAMBDA v : Sub(Mul(v, RatOfInt(2)), One), r[1]), r[2], r[3]>>

minmax1_scaler(x, mask, eps, dim) ==
    ToSymmetric(MinMaxOf(x, MaskedMax(x, mask, dim), MaskedMin(x, mask, dim), eps))

\* inv_minmax1_scaler without the step back from [-1, 1] to [0, 1]
inv_minmax1_as_minmax(z, x_min, x_range) ==
    Elementwise(Add, Elementwise(Mul, z, x_range), x_min)

inv_minmax1_scaler(z, x_min, x_range) ==
    Elementwise(Add,
                Elementwise(Mul, Map(LAMBDA v : Div(Add(v, One), RatOfInt(2)), z),
                            x_range),
                x_min)

\* torch.sqrt(masked_mean(x=(x-x_means)**2, mask=mask, dim=dim))
MaskedStd(x, x_means, mask, dim) ==
    Map(Sqrt, masked_mean(Map(Sq, Elementwise(Sub, x, x_means)), mask, dim, TRUE))

StdOf(x, mask, dim, eps, x_means) ==
    Scaled(x, x_means, GuardScale(MaskedStd(x, x_means, mask, dim), eps))

std_scaler(x, mask, dim, eps) ==
    StdOf(x, mask, dim, eps, masked_mean(x, mask, dim, TRUE))

inv_std_scaler(z, x_mean, x_std) ==
    Elementwise(Add, Elementwise(Mul, z, x_std), x_mean)

\* MadOrAux without the fallback: x_mad as it is
MadOnly(x_mad, x_mad_aux) == x_mad

\* x_mad * (x_mad>0) + x_mad_aux * (x_mad==0)
MadOrAux(x_mad, x_mad_aux) ==
    Add(Mul(x_mad, IF Lt(Zero, x_mad) THEN One ELSE Zero),
        Mul(x_mad_aux, IF Eq(x_mad, Zero) THEN One ELSE Zero))

\* masked_median(x = torch.abs(x-x_median), mask=mask, dim=dim)
RawMad(x, x_median, mask, dim) ==
    masked_median(Map(Abs, Elementwise(Sub, x, x_median)), mask, dim, TRUE)

\* x_stds * 0.6744897501960817
MadAux(x, mask, dim) ==
    Map(LAMBDA r : Mul(r, MadRatio),
        MaskedStd(x, masked_mean(x, mask, dim, TRUE), mask, dim))

\* the scale robust_scaler and invariant_scaler divide by
MadScale(x, x_median, mask, dim, eps) ==
    GuardScale(Elementwise(MadOrAux, RawMad(x, x_median, mask, dim),
                           MadAux(x, mask, dim)),
               eps)

RobustOf(x, mask, dim, eps, x_median) ==
    Scaled(x, x_median, MadScale(x, x_median, mask, dim, eps))

robust_scaler(x, mask, dim, eps) ==
    RobustOf(x, mask, dim, eps, masked_median(x, mask, dim, TRUE))

inv_robust_scaler(z, x_median, x_mad) ==
    Elementwise(Add, Elementwise(Mul, z, x_mad), x_median)

\* z = torch.arcsinh(z) on the z of r
ToArcsinh(r) == <<Map(Arcsinh, r[1]), r[2], r[3]>>

invariant_scaler(x, mask, dim, eps) ==
    ToArcsinh(RobustOf(x, mask, dim, eps, masked_median(x, mask, dim, TRUE)))

inv_invariant_scaler(z, x_median, x_mad) ==
    Elementwise(Add, Elementwise(Mul, Map(Sinh, z), x_mad), x_median)

\* the shape of x with the dimension dim collapsed to 1
Collapsed(x, dim) == [Shape(x) EXCEPT ![Axis(dim) + 1] = 1]

\* identity_scaler with statistics shaped like x itself
identity_scaler_like_x(x, mask, dim, eps) ==
    <<x, Full(Shape(x), Zero), Full(Shape(x), One)>>

identity_scaler(x, mask, dim, eps) ==
    <<x, Full(Collapsed(x, dim), Zero), Full(Collapsed(x, dim), One)>>

inv_identity_scaler(z, x_shift, x_scale) == z

(***************************************************************************)
(* TemporalNorm.  An instance is a record of its attributes; attrs names   *)
(* those of x_shift, x_scale that have been assigned.                      *)
(***************************************************************************)
\* Python's None, as an argument
None == <<>>

\* scaler_type -> forward function; the key "None" is Python's None
scalers ==
    [None |-> "identity_scaler", identity |-> "identity_scaler",
     standard |-> "std_scaler", robust |-> "robust_scaler",
     minmax |-> "minmax_scaler", minmax1 |-> "minmax1_scaler",
     invariant |-> "invariant_scaler"]

inverse_scalers ==
    [None |-> "inv_identity_scaler", identity |-> "inv_identity_scaler",
     standard |-> "inv_std_scaler", robust |-> "inv_robust_scaler",
     minmax |-> "inv_minmax_scaler", minmax1 |-> "inv_minmax1_scaler",
     invariant |-> "inv_invariant_scaler"]

\* self.scaler(x=x, mask=mask, dim=dim, eps=eps)
CallScaler(fn, x, mask, dim, eps) ==
    CASE fn = "identity_scaler" -> identity_scaler(x, mask, dim, eps)
      [] fn = "std_scaler" -> std_scaler(x, mask, dim, eps)
      [] fn = "robust_scaler" -> robust_scaler(x, mask, dim, eps)
      [] fn = "minmax_scaler" -> minmax_scaler(x, mask, eps, dim)
      [] fn = "minmax1_scaler" -> minmax1_scaler(x, mask, eps, dim)
      [] fn = "invariant_scaler" -> invariant_scaler(x, mask, dim, eps)

\* self.inverse_scaler(z, x_shift, x_scale)
CallInverseScaler(fn, z, x_shift, x_scale) ==
    CASE fn = "inv_identity_scaler" -> inv_identity_scaler(z, x_shift, x_scale)
      [] fn = "inv_std_scaler" -> inv_std_scaler(z, x_shift, x_scale)
      [] fn = "inv_robust_scaler" -> inv_robust_scaler(z, x_shift, x_scale)
      [] fn = "inv_minmax_scaler" -> inv_minmax_scaler(z, x_shift, x_scale)
      [] fn = "inv_minmax1_scaler" -> inv_minmax1_scaler(z, x_shift, x_scale)
      [] fn = "inv_invariant_scaler" -> inv_invariant_scaler(z, x_shift, x_scale)

NoInstance ==
    [scaler |-> "", inverse_scaler |-> "", scaler_type |-> "", dim |-> 0,
     eps |-> Zero, attrs |-> {}, x_shift |-> <<>>, x_scale |-> <<>>]

\* __init__ with an unknown scaler_type taken for the identity
init_unchecked(scaler_type, dim, eps) ==
    [error |-> "",
     self |-> [scaler |-> IF scaler_type \in DOMAIN scalers
                          THEN scalers[scaler_type] ELSE "identity_scaler",
               inverse_scaler |-> IF scaler_type \in DOMAIN inverse_scalers
                                  THEN inverse_scalers[scaler_type]
                                  ELSE "inv_identity_scaler",
               scaler_type |-> scaler_type, dim |-> dim, eps |-> eps,
               attrs |-> {}, x_shift |-> <<>>, x_scale |-> <<>>]]

\* __init__ that also sets neutral statistics
init_with_statistics(scaler_type, dim, eps) ==
    IF scaler_type \notin DOMAIN scalers
    THEN [error |-> "AssertionError", self |-> NoInstance]
    ELSE [error |-> "",
          self |-> [scaler |-> scalers[scaler_type],
                    inverse_scaler |-> inverse_scalers[scaler_type],
                    scaler_type |-> scaler_type, dim |-> dim, eps |-> eps,
                    attrs |-> {"x_shift", "x_scale"},
                    x_shift |-> <<<<Zero>>>>, x_scale |-> <<<<One>>>>]]

\* TemporalNorm(scaler_type, dim, eps): the exception raised ("" for none) and
\* the instance
__init__(scaler_type, dim, eps) ==
    IF scaler_type \notin DOMAIN scalers
    THEN [error |-> "AssertionError", self |-> NoInstance]
    ELSE [error |-> "",
          self |-> [scaler |-> scalers[scaler_type],
                    inverse_scaler |-> inverse_scalers[scaler_type],
                    scaler_type |-> scaler_type, dim |-> dim, eps |-> eps,
                    attrs |-> {}, x_shift |-> <<>>, x_scale |-> <<>>]]

\* StoreAndReturn with the two statistics stored under each other's name
StoreSwapped(this, r) ==
    [self |-> [this EXCEPT !.x_shift = r[3], !.x_scale = r[2],
                           !.attrs = {"x_shift", "x_scale"}],
     error |-> "", value |-> r[1]]

\* StoreAndReturn that keeps the statistics an earlier transform stored
StoreOnce(this, r) ==
    [self |-> IF this.attrs = {}
              THEN [this EXCEPT !.x_shift = r[2], !.x_scale = r[3],
                                !.attrs = {"x_shift", "x_scale"}]
              ELSE this,
     error |-> "", value |-> r[1]]

\* self.x_shift = x_shift; self.x_scale = x_scale; return z, for the
\* <<z, x_shift, x_scale>> of the scaler: the instance after the call, the
\* exception raised and the value returned
StoreAndReturn(this, r) ==
    [self |-> [this EXCEPT !.x_shift = r[2], !.x_scale = r[3],
                           !.attrs = {"x_shift", "x_scale"}],
     error |-> "", value |-> r[1]]

\* transform that scales by the statistics it has, once it has some
transform_reusing(this, x, mask) ==
    IF this.attrs = {}
    THEN StoreAndReturn(this, CallScaler(this.scaler, x, mask, this.dim, this.eps))
    ELSE [self |-> this, error |-> "",
          value |-> Scaled(x, this.x_shift, this.x_scale)[1]]

transform(this, x, mask) ==
    StoreAndReturn(this, CallScaler(this.scaler, x, mask, this.dim, this.eps))

\* inverse_transform that keeps the statistics it was given
inverse_transform_storing(this, z, x_shift, x_scale) ==
    IF \/ x_shift = None /\ "x_shift" \notin this.attrs
       \/ x_scale = None /\ "x_scale" \notin this.attrs
    THEN [self |-> this, error |-> "AttributeError", value |-> <<>>]
    ELSE [self |-> [this EXCEPT
                      !.x_shift = IF x_shift = None THEN this.x_shift ELSE x_shift,
                      !.x_scale = IF x_scale = None THEN this.x_scale ELSE x_scale,
                      !.attrs = {"x_shift", "x_scale"}],
          error |-> "",
          value |-> CallInverseScaler(this.inverse_scaler, z,
                       IF x_shift = None THEN this.x_shift ELSE x_shift,
                       IF x_scale = None THEN this.x_scale ELSE x_scale)]

\* inverse_transform that takes both statistics from the instance unless both
\* are given
inverse_transform_joint(this, z, x_shift, x_scale) ==
    IF x_shift # None /\ x_scale # None
    THEN [self |-> this, error |-> "",
          value |-> CallInverseScaler(this.inverse_scaler, z, x_shift, x_scale)]
    ELSE IF this.attrs = {}
    THEN [self |-> this, error |-> "AttributeError", value |-> <<>>]
    ELSE [self |-> this, error |-> "",
          value |-> CallInverseScaler(this.inverse_scaler, z, this.x_shift,
                                      this.x_scale)]

inverse_transform(this, z, x_shift, x_scale) ==
    IF \/ x_shift = None /\ "x_shift" \notin this.attrs
       \/ x_scale = None /\ "x_scale" \notin this.attrs
    THEN [self |-> this, error |-> "AttributeError", value |-> <<>>]
    ELSE LET shift == IF x_shift = None THEN this.x_shift ELSE x_shift
             scale == IF x_scale = None THEN this.x_scale ELSE x_scale
         IN  [self |-> this, error |-> "",
              value |-> CallInverseScaler(this.inverse_scaler, z, shift, scale)]

(***************************************************************************)
(* The calls made on one instance.                                         *)
(***************************************************************************)
MaxTransforms == 2

\* the tensor of the integers in rows
TensorOf(rows) ==
    Materialize([i \in 1..Len(rows) |->
        Materialize([j \in 1..Len(rows[1]) |-> RatOfInt(rows[i][j])])])

\* 2e12, a finite value larger than the sentinel
Huge == Rat(FALSE, NatOfDigits(<<2, 0, 0, 0>>), <<1>>)

\* Two series of three time steps, [batch, time]: ramps at two scales (the
\* notebook's example), a constant series beside one whose MAD is zero, two
\* series whose last, masked, entries are huge, and two series with entries
\* of both signs.
RampX == TensorOf(<<<<0, 1, 2>>, <<0, 10, 20>>>>)
FlatX == TensorOf(<<<<5, 5, 5>>, <<1, 1, 4>>>>)
HugeTailX ==
    <<<<RatOfInt(3), RatOfInt(1), Huge>>, <<RatOfInt(0), RatOfInt(2), Neg(Huge)>>>>

MixedX == TensorOf(<<<<-3, 0, 7>>, <<2, -2, 2>>>>)

FullMask == <<<<1, 1, 1>>, <<1, 1, 1>>>>
TailMask == <<<<1, 1, 0>>, <<1, 1, 0>>>>
RaggedMask == <<<<1, 1, 1>>, <<1, 1, 0>>>>

Pool ==
    {[x |-> RampX, mask |-> FullMask], [x |-> RampX, mask |-> TailMask],
     [x |-> FlatX, mask |-> RaggedMask], [x |-> FlatX, mask |-> TailMask],
     [x |-> HugeTailX, mask |-> TailMask], [x |-> MixedX, mask |-> RaggedMask]}

\* every accepted scaler_type, and three that are not: the string 'None' and
\* two names of the notebook's introduction
ScalerTypes == DOMAIN scalers \cup {"'None'", "std", "norm"}
Dims == {-1, 0}
EpsValues == {DefaultEps}

\* statistics a caller passes explicitly: one value for every slice
ExplicitShift == <<<<RatOfInt(3)>>>>
ExplicitScale == <<<<RatOfInt(2)>>>>

\* the z a caller can pass: one a transform of this instance returned, or
\* one the same scaler returned elsewhere
ZArgs == {zs[i] : i \in 1..Len(zs)}
         \cup {CallScaler(self.scaler, RampX, TailMask, self.dim, self.eps)[1]}

NoCall == [op |-> "", scaler_type |-> "", x |-> <<>>, mask |-> <<>>, z |-> <<>>,
           x_shift |-> None, x_scale |-> None]
NoRet == [error |-> "", value |-> <<>>]

\* no direct call, and its outcome not there yet
NoFCall == [kind |-> "", fn |-> "", x |-> <<>>, mask |-> <<>>, dim |-> 0,
            eps |-> Zero, keepdim |-> TRUE, z |-> <<>>, x_shift |-> <<>>,
            x_scale |-> <<>>]
NoFRet == [done |-> FALSE, value |-> <<>>]

\* no callers with instances of their own
NoCallers == <<>>

Init ==
    /\ phase = "new"
    /\ self = NoInstance
    /\ call = NoCall
    /\ ret = NoRet
    /\ xs = <<>>
    /\ zs = <<>>
    /\ overridden = FALSE
    /\ fcall = NoFCall
    /\ fret = NoFRet
    /\ norm = NoCallers
    /\ last = NoCallers
    /\ caller = NoCallers

\* TemporalNorm(scaler_type, dim, eps)
Construct ==
    /\ phase = "new"
    /\ call = NoCall
    /\ \E scaler_type \in ScalerTypes, dim \in Dims, eps \in EpsValues :
          /\ phase' = IF __init__(scaler_type, dim, eps).error = ""
                      THEN "ready" ELSE "failed"
          /\ self' = __init__(scaler_type, dim, eps).self
          /\ call' = [NoCall EXCEPT !.op = "__init__", !.scaler_type = scaler_type]
          /\ ret' = [error |-> __init__(scaler_type, dim, eps).error, value |-> <<>>]
    /\ UNCHANGED <<xs, zs, overridden, fcall, fret, norm, last, caller>>

\* the instance and the record of the call after transform(in.x, in.mask)
\* ended as r
Transformed(in, r) ==
    /\ self' = r.self
    /\ call' = [NoCall EXCEPT !.op = "transform", !.x = in.x, !.mask = in.mask]
    /\ ret' = [error |-> r.error, value |-> r.value]
    /\ xs' = Append(xs, <<in.x, in.mask>>)
    /\ zs' = Append(zs, r.value)

\* scaler.transform(x, mask)
Transform ==
    /\ phase = "ready"
    /\ call = NoCall
    /\ Len(xs) < MaxTransforms
    /\ \E in \in Pool : Transformed(in, transform(self, in.x, in.mask))
    /\ overridden' = FALSE
    /\ UNCHANGED <<phase, fcall, fret, norm, last, caller>>

\* the instance and the record of the call after inverse_transform ended as r
Inverted(z, x_shift, x_scale, r) ==
    /\ self' = r.self
    /\ call' = [NoCall EXCEPT !.op = "inverse_transform", !.z = z,
                              !.x_shift = x_shift, !.x_scale = x_scale]
    /\ ret' = [error |-> r.error, value |-> r.value]
    /\ overridden' = (overridden \/ x_shift # None \/ x_scale # None)

\* scaler.inverse_transform(z), also with x_shift and x_scale
InverseTransform ==
    /\ phase = "ready"
    /\ call = NoCall
    /\ \E z \in ZArgs, x_shift \in {None, ExplicitShift},
          x_scale \in {None, ExplicitScale} :
          Inverted(z, x_shift, x_scale,
                   inverse_transform(self, z, x_shift, x_scale))
    /\ UNCHANGED <<phase, xs, zs, fcall, fret, norm, last, caller>>

\* the caller has the outcome of its call and is free to make the next one
Return ==
    /\ call # NoCall
    /\ call' = NoCall
    /\ ret' = NoRet
    /\ UNCHANGED <<phase, self, xs, zs, overridden, fcall, fret, norm, last, caller>>

Next == Construct \/ Transform \/ InverseTransform \/ Return

Spec == Init /\ [][Next]_vars

(***************************************************************************)
(* The scalers and the masked reductions called directly, on one series of *)
(* three time steps.                                                       *)
(***************************************************************************)
MaxVal == 2

\* what a mask holds: 0 for an entry to leave out, 1 for one to use
MaskValues == {0, 1}

Values == {RatOfInt(v) : v \in -1..MaxVal}

\* what an entry of x may hold under mask value m: where the mask leaves it
\* out, also a value beyond the sentinel
EntriesUnder(m) == IF m = 0 THEN Values \cup {Huge, Neg(Huge)} ELSE Values

Inputs ==
    UNION {{[x |-> <<<<a, b, c>>>>, mask |-> <<m>>] :
              a \in EntriesUnder(m[1]), b \in EntriesUnder(m[2]),
              c \in EntriesUnder(m[3])} :
           m \in [1..3 -> MaskValues]}

ScalerNames == {scalers[t] : t \in DOMAIN scalers}
InverseNames == {inverse_scalers[t] : t \in DOMAIN inverse_scalers}
ReductionNames == {"masked_median", "masked_mean"}

\* the z of a direct inverse call; inv_invariant_scaler is given arcsinh values
ZInputs(fn) ==
    {IF fn = "inv_invariant_scaler" THEN Map(Arcsinh, <<<<a, b>>>>) ELSE <<<<a, b>>>> :
        a \in Values, b \in Values}

Statistics == {<<<<v>>>> : v \in Values}

ScalerCalls ==
    {[NoFCall EXCEPT !.kind = "scaler", !.fn = fn, !.x = in.x, !.mask = in.mask,
                     !.dim = dim, !.eps = eps] :
        fn \in ScalerNames, in \in Inputs, dim \in Dims, eps \in EpsValues}

InverseCalls ==
    UNION {{[NoFCall EXCEPT !.kind = "inverse", !.fn = fn, !.z = z,
                            !.x_shift = x_shift, !.x_scale = x_scale] :
              z \in ZInputs(fn), x_shift \in Statistics, x_scale \in Statistics} :
           fn \in InverseNames}

ReductionCalls ==
    {[NoFCall EXCEPT !.kind = "reduction", !.fn = fn, !.x = in.x, !.mask = in.mask,
                     !.dim = dim, !.keepdim = keepdim] :
        fn \in ReductionNames, in \in Inputs, dim \in Dims, keepdim \in BOOLEAN}

CallReduction(fn, x, mask, dim, keepdim) ==
    CASE fn = "masked_median" -> masked_median(x, mask, dim, keepdim)
      [] fn = "masked_mean" -> masked_mean(x, mask, dim, keepdim)

InitScalers ==
    /\ phase = "new"
    /\ self = NoInstance
    /\ call = NoCall
    /\ ret = NoRet
    /\ xs = <<>>
    /\ zs = <<>>
    /\ overridden = FALSE
    /\ fcall \in ScalerCalls \cup InverseCalls \cup ReductionCalls
    /\ fret = NoFRet
    /\ norm = NoCallers
    /\ last = NoCallers
    /\ caller = NoCallers

\* fn(x, mask, dim, eps) of a scaler
ApplyScaler ==
    /\ fcall.kind = "scaler"
    /\ ~fret.done
    /\ fret' = [done |-> TRUE,
                 value |-> CallScaler(fcall.fn, fcall.x, fcall.mask, fcall.dim,
                                      fcall.eps)]
    /\ UNCHANGED <<phase, self, call, ret, xs, zs, overridden, fcall, norm, last,
                   caller>>

\* fn(z, x_shift, x_scale) of an inverse scaler
ApplyInverse ==
    /\ fcall.kind = "inverse"
    /\ ~fret.done
    /\ fret' = [done |-> TRUE,
                 value |-> CallInverseScaler(fcall.fn, fcall.z, fcall.x_shift,
                                             fcall.x_scale)]
    /\ UNCHANGED <<phase, self, call, ret, xs, zs, overridden, fcall, norm, last,
                   caller>>

\* masked_median or masked_mean of (x, mask, dim, keepdim)
ApplyReduction ==
    /\ fcall.kind = "reduction"
    /\ ~fret.done
    /\ fret' = [done |-> TRUE,
                 value |-> CallReduction(fcall.fn, fcall.x, fcall.mask, fcall.dim,
                                         fcall.keepdim)]
    /\ UNCHANGED <<phase, self, call, ret, xs, zs, overridden, fcall, norm, last,
                   caller>>

NextScalers == ApplyScaler \/ ApplyInverse \/ ApplyReduction

SpecScalers == InitScalers /\ [][NextScalers]_vars

(***************************************************************************)
(* Two callers.  Each runs  z = scaler.transform(x, mask);                 *)
(* scaler.inverse_transform(z)  on a TemporalNorm of the same              *)
(* configuration: caller A on instance a, caller B on instance b or, when  *)
(* the two share one instance, on a as well.  The calls are blocking, so   *)
(* the callers interleave call by call.                                    *)
(***************************************************************************)
Callers == {"A", "B"}
Instances == {"a", "b"}

\* a caller that holds the instance i and has made no call yet
CallerAt(i) ==
    [inst |-> i, pc |-> "start", x |-> <<>>, mask |-> <<>>, z |-> <<>>,
     out |-> <<>>, error |-> "", read |-> ""]

\* the attributes of a class are shared by its instances: what one instance
\* stores, every instance holds
StoredInClass(n, i, this) ==
    [j \in DOMAIN n |-> [n[j] EXCEPT !.x_shift = this.x_shift,
                                     !.x_scale = this.x_scale,
                                     !.attrs = this.attrs]]

\* the instances after a method left the instance i as this: the attributes
\* are set on self, that is on the one instance
Stored(n, i, this) == [n EXCEPT ![i] = this]

InitCallers ==
    /\ phase = "new"
    /\ self = NoInstance
    /\ call = NoCall
    /\ ret = NoRet
    /\ xs = <<>>
    /\ zs = <<>>
    /\ overridden = FALSE
    /\ fcall = NoFCall
    /\ fret = NoFRet
    /\ \E scaler_type \in DOMAIN scalers, dim \in Dims, eps \in EpsValues :
          norm = [i \in Instances |-> __init__(scaler_type, dim, eps).self]
    /\ last = [i \in Instances |-> ""]
    /\ \E i \in Instances :
          caller = [c \in Callers |-> IF c = "A" THEN CallerAt("a") ELSE CallerAt(i)]

\* the state after caller c's transform(in.x, in.mask) ended as r
CallerTransformed(c, in, r) ==
    /\ norm' = Stored(norm, caller[c].inst, r.self)
    /\ last' = [last EXCEPT ![caller[c].inst] = c]
    /\ caller' = [caller EXCEPT ![c].pc = "transformed", ![c].x = in.x,
                                ![c].mask = in.mask, ![c].z = r.value]

\* caller c: z = scaler.transform(x, mask)
CallerTransform(c) ==
    /\ caller[c].pc = "start"
    /\ \E in \in Pool :
          CallerTransformed(c, in, transform(norm[caller[c].inst], in.x, in.mask))
    /\ UNCHANGED <<phase, self, call, ret, xs, zs, overridden, fcall, fret>>

\* the state after caller c's inverse_transform(z) ended as r
CallerInverted(c, r) ==
    /\ norm' = Stored(norm, caller[c].inst, r.self)
    /\ caller' = [caller EXCEPT ![c].pc = "done", ![c].out = r.value,
                                ![c].error = r.error,
                                ![c].read = last[caller[c].inst]]

\* caller c: scaler.inverse_transform(z) of the z its transform returned
CallerInverse(c) ==
    /\ caller[c].pc = "transformed"
    /\ CallerInverted(c, inverse_transform(norm[caller[c].inst], caller[c].z,
                                           None, None))
    /\ UNCHANGED <<phase, self, call, ret, xs, zs, overridden, fcall, fret, last>>

NextCallers == \E c \in Callers : CallerTransform(c) \/ CallerInverse(c)

SpecCallers == InitCallers /\ [][NextCallers]_vars


(***************************************************************************)
(* Properties.  Two tensors are compared by the values they hold.          *)
(***************************************************************************)
TensorEq(a, b) ==
    /\ Shape(a) = Shape(b)
    /\ \A i \in 1..Len(a) : \A j \in 1..Len(a[1]) : Eq(a[i][j], b[i][j])

Positions(t) == {<<i, j>> : i \in 1..Len(t), j \in 1..Len(t[1])}

\* the positions of the slice along dim that holds position p
SliceOf(t, dim, p) ==
    {q \in Positions(t) : IF Axis(dim) = 1 THEN q[1] = p[1] ELSE q[2] = p[2]}

IsValid(mask, p) == mask[p[1]][p[2]] >= 1

\* every slice along dim has an entry the mask marks valid
HasValidInEverySlice(mask, dim) ==
    \A p \in Positions(mask) : \E q \in SliceOf(mask, dim, p) : IsValid(mask, q)

OnePlusEps(eps) == Add(One, eps)

\* the last transform of the instance: its x, its mask, the z it returned
LastX == xs[Len(xs)][1]
LastMask == xs[Len(xs)][2]
LastZ == zs[Len(zs)]

\* inverse_transform(z) was called with no statistics
PlainInverse ==
    /\ call.op = "inverse_transform"
    /\ call.x_shift = None
    /\ call.x_scale = None

\* transform(x, mask) and then inverse_transform(z) of its z, on a mask with a
\* valid entry in every slice
RoundTripCase ==
    /\ PlainInverse
    /\ xs # <<>>
    /\ call.z = LastZ
    /\ HasValidInEverySlice(LastMask, self.dim)

\* C1: for each of the seven scaler_type values and every (x, mask) whose mask
\* has a valid entry in every slice along dim, transform(x, mask) followed by
\* inverse_transform(z) with no statistics returns x at every position, the
\* positions the mask marks invalid included.
C1_RoundTrip ==
    RoundTripCase => ret.error = "" /\ TensorEq(ret.value, LastX)

\* a round trip under minmax1 that gives back the huge entries the mask hides
C1_Witness ==
    /\ RoundTripCase
    /\ self.scaler_type = "minmax1"
    /\ LastX = HugeTailX
    /\ LastMask = TailMask
    /\ TensorEq(ret.value, HugeTailX)

\* transform(x_a), z_b = transform(x_b), inverse_transform(z_b) with x_a # x_b
OverwriteCase ==
    /\ RoundTripCase
    /\ Len(xs) >= 2
    /\ xs[Len(xs) - 1][1] # LastX
    /\ HasValidInEverySlice(xs[Len(xs) - 1][2], self.dim)

\* what an instance that only ever saw the last transform returns for z
FreshAnswer(z) ==
    inverse_transform(
        transform([self EXCEPT !.attrs = {}, !.x_shift = <<>>, !.x_scale = <<>>],
                  LastX, LastMask).self,
        z, None, None).value

\* C2: on one instance, transform(x_a), z_b = transform(x_b),
\* inverse_transform(z_b) returns x_b and not x_a, and what it returns is what
\* an instance that never saw x_a returns.
C2_CacheOverwrite ==
    OverwriteCase =>
        /\ ret.error = ""
        /\ TensorEq(ret.value, LastX)
        /\ ~TensorEq(ret.value, xs[Len(xs) - 1][1])
        /\ ret.value = FreshAnswer(call.z)

\* two series at different scales through one standard scaler
C2_Witness ==
    /\ OverwriteCase
    /\ self.scaler_type = "standard"
    /\ xs[Len(xs) - 1] = <<RampX, FullMask>>
    /\ xs[Len(xs)] = <<FlatX, RaggedMask>>
    /\ TensorEq(ret.value, FlatX)

\* C3: on a fresh instance, transform never called, inverse_transform(z) with
\* shift and scale omitted ends in an error and returns no value, for every
\* scaler_type, identity and None included.
C3_OrderingPrecondition ==
    (PlainInverse /\ xs = <<>>) => ret.error = "AttributeError" /\ ret.value = <<>>

\* the identity scaler, whose inverse would not read the statistics
C3_Witness ==
    /\ PlainInverse
    /\ xs = <<>>
    /\ self.scaler_type \in {"identity", "None"}
    /\ self.attrs = {}
    /\ ret.error = "AttributeError"

\* the seven values of scaler_type, None written "None"
AcceptedScalerTypes ==
    {"None", "identity", "standard", "robust", "minmax", "minmax1", "invariant"}

\* C4: constructing TemporalNorm with a scaler_type outside the seven accepted
\* values fails at construction and leaves no instance to call transform or
\* inverse_transform on; with each of the seven it succeeds.
C4_ConfigurationValidation ==
    /\ call.op = "__init__" =>
          IF call.scaler_type \in AcceptedScalerTypes
          THEN ret.error = "" /\ phase = "ready"
               /\ self.scaler_type = call.scaler_type
          ELSE ret.error = "AssertionError" /\ phase = "failed"
               /\ self = NoInstance
    /\ phase = "failed" => ~ENABLED Transform /\ ~ENABLED InverseTransform
    /\ phase = "ready" => self.scaler_type \in AcceptedScalerTypes

\* a name of the notebook's introduction that the table does not hold
C4_Witness ==
    /\ call.op = "__init__"
    /\ call.scaler_type = "std"
    /\ ret.error = "AssertionError"
    /\ phase = "failed"

\* a direct call of a forward scaler has returned
ScalerDone == fcall.kind = "scaler" /\ fret.done

\* x with every entry the mask leaves out set to zero
Cleared(x, mask) ==
    Materialize([i \in 1..Len(x) |-> Materialize([j \in 1..Len(x[1]) |->
        IF mask[i][j] >= 1 THEN x[i][j] ELSE Zero])])

\* the scaler of the direct call on x with its masked entries cleared
OnCleared ==
    CallScaler(fcall.fn, Cleared(fcall.x, fcall.mask), fcall.mask, fcall.dim,
               fcall.eps)

\* r and fret.value hold the same statistics, and the same z where valid
SameWhereValid(r) ==
    /\ TensorEq(r[2], fret.value[2])
    /\ TensorEq(r[3], fret.value[3])
    /\ \A p \in Positions(fcall.x) :
          IsValid(fcall.mask, p) => Eq(r[1][p[1]][p[2]], fret.value[1][p[1]][p[2]])

\* C5: for every scaler, inputs that agree wherever the mask is valid get the
\* same shift, the same scale and the same z at the valid positions, whatever
\* the entries at the invalid positions hold.  (Each input is compared with the
\* one whose invalid entries are zero.)
C5_MaskedEntryInvariance == ScalerDone => SameWhereValid(OnCleared)

\* minmax_scaler on a series whose masked entry lies beyond the sentinel
C5_Witness ==
    /\ ScalerDone
    /\ fcall.fn = "minmax_scaler"
    /\ fcall.dim = -1
    /\ fcall.mask = <<<<1, 1, 0>>>>
    /\ fcall.x = <<<<Zero, One, Huge>>>>
    /\ ~TensorEq(fret.value[3], OnCleared[3])

\* C6: with a valid entry in every slice, every output of minmax_scaler at a
\* valid position lies in [0, 1] and every output of minmax1_scaler at a valid
\* position lies in [-1, 1].
C6_RangeBounds ==
    (ScalerDone /\ fcall.fn \in {"minmax_scaler", "minmax1_scaler"}
        /\ HasValidInEverySlice(fcall.mask, fcall.dim)) =>
        \A p \in Positions(fcall.x) :
            IsValid(fcall.mask, p) =>
                /\ Le(IF fcall.fn = "minmax_scaler" THEN Zero ELSE RatOfInt(-1),
                      fret.value[1][p[1]][p[2]])
                /\ Le(fret.value[1][p[1]][p[2]], One)

\* minmax1_scaler beside a masked entry beyond the sentinel: the least valid
\* entry is sent to -1 and another one above it
C6_Witness ==
    /\ ScalerDone
    /\ fcall.fn = "minmax1_scaler"
    /\ fcall.dim = -1
    /\ fcall.mask = <<<<1, 1, 0>>>>
    /\ fcall.x[1][3] = Huge
    /\ Eq(fret.value[1][1][1], RatOfInt(-1))
    /\ Lt(RatOfInt(-1), fret.value[1][1][2])

\* the scale statistic of the direct call before the guard: std, or max - min
RawScale ==
    IF fcall.fn = "std_scaler"
    THEN MaskedStd(fcall.x, masked_mean(fcall.x, fcall.mask, fcall.dim, TRUE),
                   fcall.mask, fcall.dim)
    ELSE Elementwise(Sub, MaskedMax(fcall.x, fcall.mask, fcall.dim),
                     MaskedMin(fcall.x, fcall.mask, fcall.dim))

\* the valid entries of the slice of p are all equal, and there are some
ValidAllEqual(p) ==
    /\ \E q \in SliceOf(fcall.x, fcall.dim, p) : IsValid(fcall.mask, q)
    /\ \A q, r \in SliceOf(fcall.x, fcall.dim, p) :
          (IsValid(fcall.mask, q) /\ IsValid(fcall.mask, r)) =>
              Eq(fcall.x[q[1]][q[2]], fcall.x[r[1]][r[2]])

\* C7: under standard, minmax and minmax1, a slice whose raw scale statistic is
\* exactly zero gets the scale 1 + eps, and z at its valid positions is 0 (-1
\* under minmax1); no entry of z or of the scale is NaN.
C7_ZeroScaleGuard ==
    (ScalerDone /\ fcall.fn \in {"std_scaler", "minmax_scaler", "minmax1_scaler"}) =>
        /\ \A p \in Positions(fcall.x) :
              /\ ~IsNaN(fret.value[1][p[1]][p[2]])
              /\ ~IsNaN(At(fret.value[3], p[1], p[2]))
              /\ IsZero(At(RawScale, p[1], p[2])) =>
                    /\ Eq(At(fret.value[3], p[1], p[2]), OnePlusEps(fcall.eps))
                    /\ IsValid(fcall.mask, p) =>
                          Eq(fret.value[1][p[1]][p[2]],
                             IF fcall.fn = "minmax1_scaler" THEN RatOfInt(-1)
                             ELSE Zero)

\* a constant series of three valid entries under std_scaler
C7_Witness ==
    /\ ScalerDone
    /\ fcall.fn = "std_scaler"
    /\ fcall.dim = -1
    /\ fcall.mask = <<<<1, 1, 1>>>>
    /\ ValidAllEqual(<<1, 1>>)
    /\ ~IsZero(fcall.x[1][1])
    /\ IsZero(RawScale[1][1])
    /\ Eq(fret.value[3][1][1], OnePlusEps(fcall.eps))
    /\ IsZero(fret.value[1][1][2])

\* the x_mad of the direct call before the fallback, and the fallback
RawMadOfCall ==
    RawMad(fcall.x, masked_median(fcall.x, fcall.mask, fcall.dim, TRUE),
           fcall.mask, fcall.dim)
StdTimesRatio == MadAux(fcall.x, fcall.mask, fcall.dim)

\* C8: under robust and invariant, a slice whose MAD is exactly zero gets the
\* scale std * 0.6744897501960817 + eps if that product is not zero and
\* 1 + eps if it is; a slice whose MAD is not zero gets MAD + eps.
C8_ZeroMadFallback ==
    (ScalerDone /\ fcall.fn \in {"robust_scaler", "invariant_scaler"}) =>
        \A p \in Positions(fret.value[3]) :
            Eq(fret.value[3][p[1]][p[2]],
               IF ~IsZero(RawMadOfCall[p[1]][p[2]])
               THEN Add(RawMadOfCall[p[1]][p[2]], fcall.eps)
               ELSE IF ~IsZero(StdTimesRatio[p[1]][p[2]])
               THEN Add(StdTimesRatio[p[1]][p[2]], fcall.eps)
               ELSE OnePlusEps(fcall.eps))

\* a series whose MAD is zero and whose std is not: the fallback is taken
C8_Witness ==
    /\ ScalerDone
    /\ fcall.fn = "robust_scaler"
    /\ fcall.dim = -1
    /\ fcall.mask = <<<<1, 1, 1>>>>
    /\ IsZero(RawMadOfCall[1][1])
    /\ ~IsZero(StdTimesRatio[1][1])
    /\ Eq(fret.value[3][1][1], Add(StdTimesRatio[1][1], fcall.eps))

\* the shape of the statistics of the direct call: that of x, dim collapsed
StatisticsShape ==
    IF fcall.dim \in {-1, 1} THEN <<Len(fcall.x), 1>> ELSE <<1, Len(fcall.x[1])>>

\* C9: identity_scaler, which both "identity" and None select, returns x as z,
\* a shift of zeros and a scale of ones of the shape of x with dim collapsed to
\* 1, for every mask; inv_identity_scaler returns z whatever the statistics.
C9_IdentityNeutrality ==
    /\ scalers["identity"] = "identity_scaler"
    /\ scalers["None"] = "identity_scaler"
    /\ inverse_scalers["identity"] = "inv_identity_scaler"
    /\ inverse_scalers["None"] = "inv_identity_scaler"
    /\ (ScalerDone /\ fcall.fn = "identity_scaler") =>
          /\ fret.value[1] = fcall.x
          /\ fret.value[2] = Full(StatisticsShape, Zero)
          /\ fret.value[3] = Full(StatisticsShape, One)
    /\ (fcall.kind = "inverse" /\ fcall.fn = "inv_identity_scaler" /\ fret.done) =>
          fret.value = fcall.z

\* identity_scaler over the last dimension of a series with no valid entry
C9_Witness ==
    /\ ScalerDone
    /\ fcall.fn = "identity_scaler"
    /\ fcall.dim = -1
    /\ fcall.mask = <<<<0, 0, 0>>>>
    /\ fcall.x[1][1] = Huge
    /\ fret.value[1] = fcall.x
    /\ fret.value[2] = <<<<Zero>>>>

\* what the configured scaler returns for the last transform's (x, mask)
LastStatistics == CallScaler(self.scaler, LastX, LastMask, self.dim, self.eps)

\* C10: every call of inverse_transform, with statistics or without, leaves the
\* instance as it was (cached x_shift and x_scale, scaler_type, dim, eps), so
\* that an inverse_transform without statistics still applies those of the
\* last transform.
C10_InverseReadOnly ==
    /\ [][(call = NoCall /\ call'.op = "inverse_transform") => self' = self]_vars
    /\ []((PlainInverse /\ xs # <<>>) =>
            /\ ret.error = ""
            /\ ret.value = CallInverseScaler(self.inverse_scaler, call.z,
                                             LastStatistics[2], LastStatistics[3]))

\* an inverse_transform without statistics after one that was given some
C10_Witness ==
    /\ PlainInverse
    /\ overridden
    /\ self.scaler_type = "robust"
    /\ ret.error = ""
    /\ self.x_shift # ExplicitShift
    /\ TensorEq(ret.value, LastX)


\* what the scaler of the instance t returns for the x and mask of the call c
StatisticsFor(t, c) == CallScaler(t.scaler, c.x, c.mask, t.dim, t.eps)

\* the instance t holds the shift and scale of r, and the call returned ok the
\* z of r and nothing else
HoldsAndReturned(t, ok, r) ==
    /\ t.attrs = {"x_shift", "x_scale"}
    /\ t.x_shift = r[2]
    /\ t.x_scale = r[3]
    /\ ok.error = ""
    /\ ok.value = r[1]

\* C11: once transform has been called, whatever calls followed, the cached
\* x_shift and x_scale are exactly the shift and scale the configured scaler
\* returns for the (x, mask) of the most recent transform; transform returns
\* the z of that scaler and nothing else.  (Every transform(x, mask) becomes
\* the most recent one and leaves the instance and its result so; no other
\* step changes the cached statistics or which transform is the most recent.)
C11_CacheInvariant ==
    /\ [][(call = NoCall /\ call'.op = "transform") =>
            /\ xs' = Append(xs, <<call'.x, call'.mask>>)
            /\ HoldsAndReturned(self', ret', StatisticsFor(self', call'))
            /\ Shape(ret'.value) = Shape(call'.x)]_vars
    /\ [][~(call = NoCall /\ call'.op = "transform") =>
            /\ xs' = xs
            /\ self'.x_shift = self.x_shift
            /\ self'.x_scale = self.x_scale]_vars
    /\ [](xs # <<>> => self.attrs = {"x_shift", "x_scale"})

\* the cache of a minmax instance after two transforms and an inverse_transform
\* that was given statistics
C11_Witness ==
    /\ Len(xs) = 2
    /\ xs[1] # xs[2]
    /\ overridden
    /\ call.op = "inverse_transform"
    /\ self.scaler_type = "minmax"
    /\ self.x_scale = LastStatistics[3]
    /\ self.x_scale # ExplicitScale

\* transform(x, mask) on a new instance of the configuration of this one
OnNewInstance == transform(__init__(self.scaler_type, self.dim, self.eps).self,
                           LastX, LastMask)

\* C12: the z transform(x, mask) returns and the statistics it stores are those
\* an instance of the same scaler_type, dim and eps with no earlier call
\* returns and stores for the same (x, mask).
C12_HistoryIndependence ==
    call.op = "transform" =>
        LET r == OnNewInstance
        IN  /\ ret.value = r.value
            /\ self = r.self

\* a second transform, on another series than the first
C12_Witness ==
    /\ call.op = "transform"
    /\ Len(xs) = 2
    /\ xs[1] = <<HugeTailX, TailMask>>
    /\ xs[2] = <<RampX, FullMask>>
    /\ self.scaler_type = "robust"
    /\ ret.value = OnNewInstance.value
    /\ self.x_scale = OnNewInstance.self.x_scale


\* the absolute deviations of x from the masked median of the direct call
AbsDeviations ==
    Map(Abs, Elementwise(Sub, fcall.x,
                         masked_median(fcall.x, fcall.mask, fcall.dim, TRUE)))

\* (1/n) * sum |v_i - m| over the n valid entries v_i of each slice
MeanAbsDeviation == masked_mean(AbsDeviations, fcall.mask, fcall.dim, TRUE)

\* C13: under robust and invariant, the MAD of a slice before the fallback and
\* eps is the mean of the absolute deviations of its valid entries from their
\* masked median.
C13_MadIsMeanAbsoluteDeviation ==
    (ScalerDone /\ fcall.fn \in {"robust_scaler", "invariant_scaler"}) =>
        TensorEq(RawMadOfCall, MeanAbsDeviation)

\* robust_scaler on 0, 1, 2: the deviations are 1, 0, 1, their median is 1 and
\* their mean 2/3, and the scale returned is the median plus eps
C13_Witness ==
    /\ ScalerDone
    /\ fcall.fn = "robust_scaler"
    /\ fcall.dim = -1
    /\ fcall.mask = <<<<1, 1, 1>>>>
    /\ fcall.x = <<<<Zero, One, RatOfInt(2)>>>>
    /\ Eq(RawMadOfCall[1][1], One)
    /\ Eq(MeanAbsDeviation[1][1], Rat(FALSE, NatOfInt(2), NatOfInt(3)))
    /\ Eq(fret.value[3][1][1], Add(One, fcall.eps))


\* the valid positions of the slice of p in the direct call
ValidIn(p) == {q \in SliceOf(fcall.x, fcall.dim, p) : IsValid(fcall.mask, q)}

\* the least and the greatest of the valid entries of the slice of p
ValidMin(p) ==
    LET q == CHOOSE q \in ValidIn(p) :
                 \A r \in ValidIn(p) : Le(fcall.x[q[1]][q[2]], fcall.x[r[1]][r[2]])
    IN  fcall.x[q[1]][q[2]]
ValidMax(p) ==
    LET q == CHOOSE q \in ValidIn(p) :
                 \A r \in ValidIn(p) : Le(fcall.x[r[1]][r[2]], fcall.x[q[1]][q[2]])
    IN  fcall.x[q[1]][q[2]]

\* C14: under minmax and minmax1, with a valid entry in every slice, the shift
\* returned is the least valid entry of the slice and the range before the
\* guard is the greatest valid entry minus the least one, whatever the invalid
\* entries hold.
C14_ExtremaIgnoreMasked ==
    (ScalerDone /\ fcall.fn \in {"minmax_scaler", "minmax1_scaler"}
        /\ HasValidInEverySlice(fcall.mask, fcall.dim)) =>
        \A p \in Positions(fret.value[2]) :
            /\ Eq(fret.value[2][p[1]][p[2]], ValidMin(p))
            /\ Eq(RawScale[p[1]][p[2]], Sub(ValidMax(p), ValidMin(p)))

\* minmax1_scaler on 0, 1 and a masked -2e12: the masked entry, moved up by
\* the sentinel to -1e12, is the minimum taken
C14_Witness ==
    /\ ScalerDone
    /\ fcall.fn = "minmax1_scaler"
    /\ fcall.dim = -1
    /\ fcall.mask = <<<<1, 1, 0>>>>
    /\ fcall.x = <<<<Zero, One, Neg(Huge)>>>>
    /\ Eq(ValidMin(<<1, 1>>), Zero)
    /\ Eq(fret.value[2][1][1], Neg(Sentinel))
    /\ Eq(RawScale[1][1], Add(One, Sentinel))


\* a direct call of the reduction fn has returned
ReductionDone(fn) == fcall.kind = "reduction" /\ fcall.fn = fn /\ fret.done

\* the entry of the reduction's result for the slice of position p of x
ReducedAt(p) ==
    IF fcall.keepdim
    THEN IF Axis(fcall.dim) = 1 THEN fret.value[p[1]][1] ELSE fret.value[1][p[2]]
    ELSE IF Axis(fcall.dim) = 1 THEN fret.value[p[1]] ELSE fret.value[p[2]]

\* the sum of the entries of x at the positions I
RECURSIVE SumAt(_)
SumAt(I) ==
    IF I = {} THEN Zero
    ELSE LET q == CHOOSE q \in I : TRUE
         IN  Add(fcall.x[q[1]][q[2]], SumAt(I \ {q}))

\* C15: masked_mean gives, for every slice along dim, the arithmetic mean of
\* exactly the entries whose mask is at least 1, and 0 for a slice without
\* such an entry; no entry of the result is NaN, and with keepdim the result
\* has the shape of x with dim collapsed to 1.
C15_MaskedMean ==
    ReductionDone("masked_mean") =>
        /\ fcall.keepdim => Shape(fret.value) = StatisticsShape
        /\ ~fcall.keepdim =>
              Len(fret.value) = (IF Axis(fcall.dim) = 1 THEN Len(fcall.x)
                                 ELSE Len(fcall.x[1]))
        /\ \A p \in Positions(fcall.x) :
              /\ ~IsNaN(ReducedAt(p))
              /\ Eq(ReducedAt(p),
                    IF ValidIn(p) = {} THEN Zero
                    ELSE Div(SumAt(ValidIn(p)), RatOfInt(Cardinality(ValidIn(p)))))

\* the mean of 2, -1 and a masked 2e12 is 1/2
C15_Witness ==
    /\ ReductionDone("masked_mean")
    /\ fcall.keepdim
    /\ fcall.dim = -1
    /\ fcall.mask = <<<<1, 1, 0>>>>
    /\ fcall.x = <<<<RatOfInt(2), RatOfInt(-1), Huge>>>>
    /\ fret.value = <<<<Rat(FALSE, NatOfInt(1), NatOfInt(2))>>>>

\* C16: masked_median gives, for every slice with n >= 1 valid entries, the
\* valid entry of rank (n-1) div 2 in ascending order (of an even count the
\* lower of the two middle ones, not their average), and 0 for a slice without
\* a valid entry.
C16_MaskedMedian ==
    ReductionDone("masked_median") =>
        \A p \in Positions(fcall.x) :
            IF ValidIn(p) = {} THEN IsZero(ReducedAt(p))
            ELSE \E q \in ValidIn(p) :
                    /\ ReducedAt(p) = fcall.x[q[1]][q[2]]
                    /\ Cardinality({r \in ValidIn(p) :
                           Lt(fcall.x[r[1]][r[2]], fcall.x[q[1]][q[2]])})
                          <= (Cardinality(ValidIn(p)) - 1) \div 2
                    /\ Cardinality({r \in ValidIn(p) :
                           Le(fcall.x[r[1]][r[2]], fcall.x[q[1]][q[2]])})
                          > (Cardinality(ValidIn(p)) - 1) \div 2

\* the median of 2, -1 and a masked -2e12 is -1, the lower of the two
C16_Witness ==
    /\ ReductionDone("masked_median")
    /\ ~fcall.keepdim
    /\ fcall.dim = -1
    /\ fcall.mask = <<<<1, 1, 0>>>>
    /\ fcall.x = <<<<RatOfInt(2), RatOfInt(-1), Neg(Huge)>>>>
    /\ fret.value = <<RatOfInt(-1)>>


\* the scalers that divide by their scale
DividingScalers ==
    {scalers[t] : t \in {"standard", "robust", "invariant", "minmax", "minmax1"}}

\* C17: for every dividing scaler and every (x, mask), slices of zero variance
\* or range and slices with no valid entry included, the scale returned for
\* every slice is at least eps, hence strictly positive.
C17_PositiveDivisor ==
    (ScalerDone /\ fcall.fn \in DividingScalers) =>
        \A p \in Positions(fret.value[3]) :
            /\ Lt(Zero, fret.value[3][p[1]][p[2]])
            /\ Le(fcall.eps, fret.value[3][p[1]][p[2]])

\* minmax_scaler on a slice with no valid entry: the maximum is 2 - 1e12, the
\* minimum 0 + 1e12, and the scale their difference plus eps
C17_Witness ==
    /\ ScalerDone
    /\ fcall.fn = "minmax_scaler"
    /\ fcall.dim = -1
    /\ fcall.mask = <<<<0, 0, 0>>>>
    /\ fcall.x = <<<<Zero, One, RatOfInt(2)>>>>
    /\ Lt(Zero, fcall.eps)
    /\ Eq(fret.value[3][1][1],
          Add(Sub(RatOfInt(2), Add(Sentinel, Sentinel)), fcall.eps))
    /\ Lt(fret.value[3][1][1], Zero)


\* the configured inverse on the z of the call with the statistics given
InverseWith(x_shift, x_scale) ==
    CallInverseScaler(self.inverse_scaler, call.z, x_shift, x_scale)

\* C18: inverse_transform(z, x_shift, x_scale) with both statistics given
\* returns the configured inverse of z under exactly those, whatever the
\* instance has stored and also when transform was never called; with one of
\* them given, that one is used and the other is the one the last transform
\* stored.
C18_ExplicitStatistics ==
    call.op = "inverse_transform" =>
        /\ (call.x_shift # None /\ call.x_scale # None) =>
              /\ ret.error = ""
              /\ ret.value = InverseWith(call.x_shift, call.x_scale)
        /\ (call.x_shift # None /\ call.x_scale = None /\ xs # <<>>) =>
              /\ ret.error = ""
              /\ ret.value = InverseWith(call.x_shift, self.x_scale)
        /\ (call.x_shift = None /\ call.x_scale # None /\ xs # <<>>) =>
              /\ ret.error = ""
              /\ ret.value = InverseWith(self.x_shift, call.x_scale)

\* after a transform under standard, inverse_transform with x_shift only: the
\* value returned comes from the given shift and the stored scale
C18_Witness ==
    /\ call.op = "inverse_transform"
    /\ call.x_shift = ExplicitShift
    /\ call.x_scale = None
    /\ xs = <<<<RampX, FullMask>>>>
    /\ self.scaler_type = "standard"
    /\ self.x_shift # ExplicitShift
    /\ self.x_scale = LastStatistics[3]
    /\ ret.value = InverseWith(ExplicitShift, self.x_scale)
    /\ ret.value # InverseWith(self.x_shift, self.x_scale)


\* the two callers hold the same instance
Shared == caller["A"].inst = caller["B"].inst

\* the statistics of the transform of caller c, computed on their own
StatisticsOf(c) ==
    CallScaler(norm[caller[c].inst].scaler, caller[c].x, caller[c].mask,
               norm[caller[c].inst].dim, norm[caller[c].inst].eps)

\* C19: with an instance each, in every interleaving of the two callers'
\* transform and inverse_transform each caller's inverse_transform reads the
\* statistics of its own transform and returns its own x; on one shared
\* instance, an inverse_transform that follows the other caller's transform
\* returns the inverse of its z under the other caller's statistics.
C19_InstanceIsolation ==
    \A c \in Callers : \A o \in Callers \ {c} :
        caller[c].pc = "done" =>
            /\ ~Shared =>
                  /\ caller[c].error = ""
                  /\ caller[c].read = c
                  /\ TensorEq(caller[c].out, caller[c].x)
            /\ (Shared /\ caller[c].read = o) =>
                  caller[c].out =
                      CallInverseScaler(norm[caller[c].inst].inverse_scaler,
                                        caller[c].z, StatisticsOf(o)[2],
                                        StatisticsOf(o)[3])

\* one shared standard instance: A.transform, B.transform, then
\* A.inverse_transform(z_a), which does not give x_a back
C19_Witness ==
    /\ Shared
    /\ norm["a"].scaler_type = "standard"
    /\ caller["A"].pc = "done"
    /\ caller["A"].read = "B"
    /\ caller["B"].pc = "transformed"
    /\ caller["A"].x = RampX
    /\ caller["B"].x = FlatX
    /\ norm["a"].x_shift = StatisticsOf("B")[2]
    /\ ~TensorEq(caller["A"].out, caller["A"].x)

=============================================================================
